---- MODULE Spec2Model ----
(***************************************************************************)
(* Model of plottr/plot/mpl.py: the matplotlib canvas MPLPlot (clearFig),  *)
(* the automatic plot widget AutoPlot (setData, _plot1d, _plot2d), the     *)
(* mesh routine ppcolormesh_from_meshgrid and the flow-chart node          *)
(* PlotNode.                                                               *)
(*                                                                         *)
(* Arrays are represented by what the control flow reads of them: their    *)
(* shape (a tuple of dimension sizes) and, for the coordinates of a mesh,  *)
(* the class of their invalid (NaN / None / masked) entries.  The values   *)
(* x, y and z of a MeshgridDataDict share one shape, and a meshgrid over   *)
(* n axes has n dimensions.                                                *)
(***************************************************************************)
EXTENDS Integers, Sequences, FiniteSets, TLC

\* ---------------------------------------------------------------- bounds
MaxData == 4        \* largest number of dependents of a dataset
MaxDim == 2         \* largest size of one array dimension
MaxGrid == 2        \* largest nrows / ncols of a direct clearFig call
MaxCalls == 1       \* largest number of calls on the widget in a run
MaxTarget == 1      \* axes[0..MaxTarget-1] are targets of direct mesh calls
MaxOverlay == 1     \* a direct mesh call needs fewer artists than this on ax
MaxProcess == 3     \* largest number of PlotNode.process calls in a run
MaxConnect == 2     \* largest number of setPlotWidget calls in a run
MaxToken == 2       \* datasets 1..MaxToken are passed to the node
MaxAxes == 3        \* datasets have 0..MaxAxes independent axes

\* ------------------------------------------------------ program constants
MAXYLABELS == 3

VARIABLES axes, gen, lastClearFig, call, ncalls,
          plotWidget, connections, setAt, processed, emitted, received,
          returned

figvars == <<axes, gen, lastClearFig, call, ncalls>>
nodevars == <<plotWidget, connections, setAt, processed, emitted, received,
              returned>>
vars == <<axes, gen, lastClearFig, call, ncalls,
          plotWidget, connections, setAt, processed, emitted, received,
          returned>>

\* ------------------------------------------------------------ arithmetic
RECURSIVE Prod(_)
Prod(s) == IF s = <<>> THEN 1 ELSE Head(s) * Prod(Tail(s))

RECURSIVE MinOf(_)
MinOf(s) == IF Len(s) = 1 THEN s[1]
            ELSE LET m == MinOf(Tail(s)) IN IF s[1] < m THEN s[1] ELSE m

Contains(s, v) == \E i \in 1..Len(s) : s[i] = v

\* ndata ** .5 // 1
FloorSqrt(n) == CHOOSE r \in 0..n : r * r <= n /\ (r + 1) * (r + 1) > n

\* np.ceil(ndata / nrows)
CeilDiv(a, b) == (a + b - 1) \div b

\* ------------------------------------------------------------- the data
Dims == 0..MaxDim
\* Shapes of the given rank; beyond two dimensions the further ones repeat
\* the second.
Shapes(rank) == {[i \in 1..rank |-> IF i = 1 THEN a ELSE b] : a, b \in Dims}
Classes == {"none", "some", "all"}

NoNum == [xcls |-> "none", ycls |-> "none", gaps |-> FALSE, crop |-> <<>>,
          edgesOK |-> TRUE]

\* A subplot as fig.add_subplot(nrows, ncols, i, **kwargs) creates it.
add_subplot(born, nrows, ncols, i, sharex, sharey) ==
    [born |-> born, nrows |-> nrows, ncols |-> ncols, pos |-> i,
     sharex |-> sharex, sharey |-> sharey,
     artists |-> <<>>, colorbar |-> FALSE, title |-> 0,
     xlabel |-> FALSE, ylabels |-> 0, ellipsis |-> FALSE, legend |-> FALSE,
     limits |-> FALSE]

\* Classes of invalid entries an array of shape s can have, as read after
\* astype(float) and the filling of masked entries with NaN: np.all of an
\* empty array is True, and a mixed array has at least two entries.
ClassesOf(s) == IF Prod(s) = 0 THEN {"all"}
                ELSE IF Prod(s) = 1 THEN {"none", "all"}
                ELSE Classes

\* Shapes crop2d can return for arrays of shape s: rows and columns removed.
CropShapes(s) == {c \in Shapes(Len(s)) : \A i \in 1..Len(s) : c[i] <= s[i]}

\* for g in x, y, z: the first test that fires decides.
RECURSIVE ShapeLoop(_)
ShapeLoopSkipMin(gs) ==
    IF gs = <<>> THEN "edges"
    ELSE IF Prod(Head(gs)) = 0 THEN "None"
    ELSE IF Len(Head(gs)) < 2 THEN "None"
    ELSE "edges"
ShapeLoop(gs) ==
    IF gs = <<>> THEN "edges"
    ELSE IF Prod(Head(gs)) = 0 THEN "None"
    ELSE IF Len(Head(gs)) < 2 THEN "None"
    ELSE IF MinOf(Head(gs)) < 2 THEN "scatter"
    ELSE ShapeLoop(Tail(gs))

AllInvalid(nm) == nm.xcls = "all" \/ nm.ycls = "all"
AnyNaN(nm) == nm.xcls # "none" \/ nm.ycls # "none"
AnyInvalidAfterInterp(nm) == IF AnyNaN(nm) THEN nm.gaps ELSE FALSE

\* The outcomes of interp_meshgrid_2d (gaps: invalid entries are left in x
\* or y), crop2d (the shape it leaves) and centers2edges_2d (edgesOK: it
\* does not raise) for coordinate arrays of shape s; the fields of a call
\* that is not made keep their default.
Nums(s) ==
    {nm \in [xcls : ClassesOf(s), ycls : ClassesOf(s), gaps : BOOLEAN,
             crop : CropShapes(s), edgesOK : BOOLEAN] :
        LET interp == ~AllInvalid(nm) /\ AnyNaN(nm)
            crop == interp /\ nm.gaps
            final == IF crop THEN nm.crop ELSE s
        IN  /\ (~interp => ~nm.gaps)
            /\ (~crop => nm.crop = s)
            /\ (AllInvalid(nm) \/ ShapeLoop(<<final, final, final>>) # "edges"
                    => nm.edgesOK)}

\* The helper calls made before the shape tests, in their order.
HelperTrace(nm) ==
    <<"fill">> \o (IF AnyNaN(nm) THEN <<"interp">> ELSE <<>>)
               \o (IF AnyInvalidAfterInterp(nm) THEN <<"crop">> ELSE <<>>)

\* What ppcolormesh_from_meshgrid decides for x, y and z of shape s: the
\* image it returns, the helpers it called and the shape it ended with.
PpOutcome(s, nm) ==
    LET final == IF AnyInvalidAfterInterp(nm) THEN nm.crop ELSE s
        loop == ShapeLoop(<<final, final, final>>)
        trace == HelperTrace(nm)
    IN  IF AllInvalid(nm)
        THEN [im |-> "None", trace |-> <<"fill">>, final |-> s]
        ELSE IF loop = "None"
        THEN [im |-> "None", trace |-> trace, final |-> final]
        ELSE IF loop = "scatter"
        THEN [im |-> "scatter", trace |-> trace, final |-> final]
        ELSE IF ~nm.edgesOK
        THEN [im |-> "None", trace |-> Append(trace, "edges"),
              final |-> final]
        ELSE [im |-> "mesh", trace |-> Append(trace, "edges"),
              final |-> final]

\* ax.scatter(x, y, c=z) / ax.pcolormesh(x, y, z) with set_xlim, set_ylim
\* on behalf of dependent dep (0: a direct call)
DrawImage(ax, im, dep) ==
    IF im = "scatter"
    THEN [ax EXCEPT !.artists = Append(@, [kind |-> "scatter", dep |-> dep])]
    ELSE IF im = "mesh"
    THEN [ax EXCEPT !.artists = Append(@, [kind |-> "mesh", dep |-> dep]),
                    !.limits = TRUE]
    ELSE ax

\* ppcolormesh_from_meshgrid(ax, x, y, z): the axes as drawn on, and the
\* outcome.
ppcolormesh_from_meshgrid(ax, s, nm, dep) ==
    LET o == PpOutcome(s, nm)
    IN  [ax |-> DrawImage(ax, o.im, dep), im |-> o.im, trace |-> o.trace,
         final |-> o.final]

\* -------------------------------------------------------------- MPLPlot
\* The keyword arguments clearFig builds for subplot number iax: sharing
\* with axes[0] (index 1 here) from the second subplot on.
SubplotKw(iax) == IF iax > 1 THEN [sharex |-> 1, sharey |-> 1]
                  ELSE [sharex |-> 0, sharey |-> 0]

\* self.axes.append(self.fig.add_subplot(nrows, ncols, i)): kw is not passed.
NewSubplot(born, nrows, ncols, i) == add_subplot(born, nrows, ncols, i, 0, 0)

\* MPLPlot.clearFig after fig.clear(): the subplots are those of clearing
\* number g.
clearFigNoCheck(g, nrows, ncols, naxes) ==
    [axes |-> [i \in 1..naxes |-> NewSubplot(g, nrows, ncols, i)],
     exc |-> "none", draws |-> 1]
clearFig(g, nrows, ncols, naxes) ==
    IF naxes > nrows * ncols
    THEN [axes |-> <<>>, exc |-> "ValueError", draws |-> 0]
    ELSE [axes |-> [i \in 1..naxes |-> NewSubplot(g, nrows, ncols, i)],
          exc |-> "none", draws |-> 1]

\* ------------------------------------------------------------- AutoPlot
\* Line format of _plot1d.
Fmt(data) == IF data.mesh THEN "o-" ELSE "o"

_plot1d(data, ax, dNames) ==
    [ax EXCEPT !.artists = @ \o [k \in 1..Len(dNames) |->
                                    [kind |-> Fmt(data), dep |-> dNames[k]]],
               !.ylabels = IF Len(dNames) < MAXYLABELS THEN Len(dNames)
                           ELSE MAXYLABELS,
               !.ellipsis = Len(dNames) > MAXYLABELS,
               !.xlabel = TRUE,
               !.legend = TRUE]

\* colorbar, title and labels of a 2d subplot
Decorate(ax, dName) ==
    [ax EXCEPT !.colorbar = TRUE, !.title = dName,
               !.ylabels = 1, !.xlabel = TRUE]

\* if im is None: return
KeepBare(im) == im = "None"

_plot2dScatter(data, ax, dName) ==
    [ax |-> Decorate(DrawImage(ax, "scatter", dName), dName),
     plot |-> [dep |-> dName, kind |-> "scatter", im |-> "scatter",
               trace |-> <<>>, final |-> data.shape]]
_plot2d(data, ax, dName) ==
    LET r == IF data.mesh
             THEN ppcolormesh_from_meshgrid(ax, data.shape, data.num, dName)
             ELSE [ax |-> DrawImage(ax, "scatter", dName), im |-> "scatter",
                   trace |-> <<>>, final |-> data.shape]
    IN  [ax |-> IF KeepBare(r.im) THEN r.ax ELSE Decorate(r.ax, dName),
         plot |-> [dep |-> dName,
                   kind |-> IF data.mesh THEN "pp" ELSE "scatter",
                   im |-> r.im, trace |-> r.trace, final |-> r.final]]

\* meshgrid_to_datadict: the same axes and dependents as flat, non-grid data.
meshgrid_to_datadict(data) ==
    [data EXCEPT !.mesh = FALSE, !.shape = <<Prod(data.shape)>>, !.num = NoNum]

\* if len(axesNames) == 2 and isinstance(data, MeshgridDataDict):
\*     if min(shape) < 2: data = meshgrid_to_datadict(data)
NeedsConversionBelowOne(data) ==
    data.naxes = 2 /\ data.mesh /\ MinOf(data.shape) < 1
NeedsConversion(data) ==
    data.naxes = 2 /\ data.mesh /\ MinOf(data.shape) < 2

\* nrows = ndata ** .5 // 1; ncols = np.ceil(ndata / nrows)
GridRows(ndata) == FloorSqrt(ndata)
GridColsSquare(ndata) == GridRows(ndata)
GridCols(ndata) == CeilDiv(ndata, GridRows(ndata))

\* Lines 241-256: the branch on the numbers of axes and of dependents.
BranchNoReject(naxes, ndata) ==
    IF naxes = 0 \/ ndata = 0 THEN "clear"
    ELSE IF naxes = 1 THEN "1d"
    ELSE "2d"
Branch(naxes, ndata) ==
    IF naxes = 0 \/ ndata = 0 THEN "clear"
    ELSE IF naxes = 1 THEN "1d"
    ELSE IF naxes = 2 THEN "2d"
    ELSE "reject"

\* A return or raise of setData before any clearFig call.
NoEffect(exc) ==
    [clears |-> 0, args |-> <<>>, axes |-> <<>>, exc |-> exc, draws |-> 0,
     conv |-> FALSE, plots |-> <<>>]

\* shape = data.shapes()[dataNames[0]]
FirstShape(data) == IF data.ndata = 0 THEN "IndexError" ELSE "none"

\* if 0 in shape: return
IsEmptyNever(data) == FALSE
IsEmpty(data) == Contains(data.shape, 0)

\* AutoPlot.setData(data): what the call does to the figure.  The subplots
\* it creates are listed in axes; the action stamps them with the number of
\* the clearing.
setData(data) ==
    IF data.none THEN NoEffect("none")
    ELSE IF FirstShape(data) # "none" THEN NoEffect(FirstShape(data))
    ELSE IF IsEmpty(data) THEN NoEffect("none")
    ELSE IF data.naxes = 2 /\ data.mesh /\ data.shape = <<>>
    THEN NoEffect("ValueError")
    ELSE
    LET conv == NeedsConversion(data)
        d == IF conv THEN meshgrid_to_datadict(data) ELSE data
        naxes == data.naxes
        ndata == data.ndata
        dataNames == [k \in 1..ndata |-> k]
        branch == Branch(naxes, ndata)
    IN  IF branch = "clear"
        THEN LET c == clearFig(0, 1, 1, 0)
             IN  [clears |-> 1, args |-> <<1, 1, 0>>, axes |-> c.axes,
                  exc |-> "none", draws |-> c.draws + 1, conv |-> conv,
                  plots |-> <<>>]
        ELSE IF branch = "1d"
        THEN LET c == clearFig(0, 1, 1, 1)
             IN  [clears |-> 1, args |-> <<1, 1, 1>>,
                  axes |-> <<_plot1d(d, c.axes[1], dataNames)>>,
                  exc |-> "none", draws |-> c.draws + 1, conv |-> conv,
                  plots |-> [k \in 1..ndata |->
                               [dep |-> dataNames[k], kind |-> "line",
                                im |-> "line", trace |-> <<>>,
                                final |-> d.shape]]]
        ELSE IF branch = "2d"
        THEN LET nrows == GridRows(ndata)
                 ncols == GridCols(ndata)
                 c == clearFig(0, nrows, ncols, ndata)
                 ps == [i \in 1..ndata |->
                          _plot2d(d, c.axes[i], dataNames[i])]
             IN  IF c.exc # "none"
                 THEN [clears |-> 1, args |-> <<nrows, ncols, ndata>>,
                       axes |-> c.axes, exc |-> c.exc, draws |-> 0,
                       conv |-> conv, plots |-> <<>>]
                 ELSE [clears |-> 1, args |-> <<nrows, ncols, ndata>>,
                       axes |-> [i \in 1..ndata |-> ps[i].ax],
                       exc |-> "none", draws |-> c.draws + 1, conv |-> conv,
                       plots |-> [i \in 1..ndata |-> ps[i].plot]]
        ELSE [NoEffect("ValueError") EXCEPT !.conv = conv]

\* ------------------------------------------------------------ the inputs
NoneData == [none |-> TRUE, mesh |-> FALSE, naxes |-> 0, ndata |-> 0,
             shape |-> <<>>, num |-> NoNum]

\* The shapes the first dependent of a dataset can have: none without
\* dependents, one dimension per axis for a meshgrid, flat records otherwise.
ShapesOf(mesh, naxes, ndata) ==
    IF ndata = 0 THEN {<<>>}
    ELSE IF mesh THEN Shapes(naxes)
    ELSE Shapes(1)

\* The mesh routine is reached by two-axis grids that are not converted.
NumsOf(mesh, naxes, ndata, s) ==
    IF mesh /\ naxes = 2 /\ ndata > 0 /\ ~Contains(s, 0) /\ MinOf(s) >= 2
    THEN Nums(s) ELSE {NoNum}

DataDicts ==
    UNION {UNION {UNION {UNION {
        {[none |-> FALSE, mesh |-> m, naxes |-> a, ndata |-> n, shape |-> s,
          num |-> nm] : nm \in NumsOf(m, a, n, s)}
        : s \in ShapesOf(m, a, n)} : n \in 0..MaxData} : a \in 0..MaxAxes}
        : m \in BOOLEAN}

AllData == DataDicts \cup {NoneData}

\* Direct calls pass the arrays setData never passes: fewer than two
\* dimensions, or a dimension smaller than 2.
DirectShapes == Shapes(0) \cup Shapes(1)
                \cup {s \in Shapes(2) : MinOf(s) < 2}

\* The arrays and helper outcomes of the direct calls of the mesh routine
DirectCalls == UNION {{[shape |-> s, num |-> nm] : nm \in Nums(s)}
                      : s \in DirectShapes}

ClearArgs == (0..MaxGrid) \X (0..MaxGrid) \X (0..MaxData)

\* The calls of setData and of the mesh routine, each input with what the
\* call does for it.
SetDataCalls == {[data |-> data, r |-> setData(data)] : data \in AllData}
PpCalls == {[c |-> c, o |-> PpOutcome(c.shape, c.num)] : c \in DirectCalls}

NoCall == [op |-> "init", data |-> NoneData, args |-> <<1, 1, 1>>,
           target |-> 0, exc |-> "none", clears |-> 1, draws |-> 1,
           conv |-> FALSE, plots |-> <<>>]

\* The subplots of clearing number g
Stamp(as, g) == [i \in 1..Len(as) |-> [as[i] EXCEPT !.born = g]]

\* ---------------------------------------------------------------- actions
\* AutoPlot.setData(data)
SetData(data, r) ==
    /\ ncalls < MaxCalls
    /\ ncalls' = ncalls + 1
    /\ IF r.clears = 0
       THEN UNCHANGED <<axes, gen, lastClearFig>>
       ELSE /\ axes' = Stamp(r.axes, gen + 1)
            /\ gen' = gen + 1
            /\ lastClearFig' = r.args
    /\ call' = [op |-> "setData", data |-> data, args |-> <<>>,
                target |-> 0, exc |-> r.exc, clears |-> r.clears,
                draws |-> r.draws, conv |-> r.conv, plots |-> r.plots]
    /\ UNCHANGED nodevars

\* MPLPlot.clearFig(nrows, ncols, naxes), called on the canvas directly
ClearFig(nrows, ncols, naxes) ==
    /\ ncalls < MaxCalls
    /\ ncalls' = ncalls + 1
    /\ \E c \in {clearFig(gen + 1, nrows, ncols, naxes)} :
        /\ axes' = c.axes
        /\ gen' = gen + 1
        /\ lastClearFig' = <<nrows, ncols, naxes>>
        /\ call' = [op |-> "clearFig", data |-> NoneData,
                    args |-> <<nrows, ncols, naxes>>, target |-> 0,
                    exc |-> c.exc, clears |-> 1, draws |-> c.draws,
                    conv |-> FALSE, plots |-> <<>>]
    /\ UNCHANGED nodevars

\* ppcolormesh_from_meshgrid(axes[i], x, y, z), called directly with arrays
\* of shape c.shape; o is what the routine decides for them
Ppcolormesh(i, c, o) ==
    /\ ncalls < MaxCalls
    /\ i <= Len(axes)
    /\ Len(axes[i].artists) < MaxOverlay
    /\ ncalls' = ncalls + 1
    /\ axes' = [axes EXCEPT ![i] = DrawImage(@, o.im, 0)]
    /\ call' = [op |-> "ppcolormesh",
                data |-> [none |-> FALSE, mesh |-> TRUE,
                          naxes |-> Len(c.shape), ndata |-> 1,
                          shape |-> c.shape, num |-> c.num],
                args |-> <<>>, target |-> i, exc |-> "none",
                clears |-> 0, draws |-> 0, conv |-> FALSE,
                plots |-> <<[dep |-> 0, kind |-> "pp", im |-> o.im,
                             trace |-> o.trace, final |-> o.final]>>]
    /\ UNCHANGED <<gen, lastClearFig>>
    /\ UNCHANGED nodevars

\* ------------------------------------------------------------- PlotNode
Widgets == {"w1", "w2"}

\* The values of dataIn: None (0) and the datasets 1..MaxToken
Tokens == 0..MaxToken

\* self.newPlotData.connect(self.plotWidget.setData)
Connect(conns, w) == Append(conns, w)

\* A signal calls its slots in the order of their connection: recv[w] lists
\* the calls of w.setData, each with the number k of the process call of
\* the emission and the data passed.
RECURSIVE Deliver(_, _, _, _)
Deliver(recv, conns, k, d) ==
    IF conns = <<>> THEN recv
    ELSE Deliver([recv EXCEPT ![Head(conns)] = Append(@, <<k, d>>)],
                 Tail(conns), k, d)

\* self.newPlotData.emit(data)
EmitNothing(recv, conns, k, d) == recv
Emit(recv, conns, k, d) == Deliver(recv, conns, k, d)

\* return dict(dataOut=data)
process(data) == [dataOut |-> data]

\* PlotNode.setPlotWidget(widget)
SetPlotWidget(w) ==
    /\ Len(connections) < MaxConnect
    /\ plotWidget' = w
    /\ connections' = Connect(connections, w)
    /\ setAt' = IF setAt[w] < 0 THEN [setAt EXCEPT ![w] = Len(processed)]
                ELSE setAt
    /\ UNCHANGED <<processed, emitted, received, returned>>
    /\ UNCHANGED figvars

\* PlotNode.process(dataIn=d)
Process(d) ==
    /\ Len(processed) < MaxProcess
    /\ processed' = Append(processed, d)
    /\ emitted' = Append(emitted, d)
    /\ received' = Emit(received, connections, Len(processed) + 1, d)
    /\ returned' = Append(returned, process(d))
    /\ UNCHANGED <<plotWidget, connections, setAt>>
    /\ UNCHANGED figvars

InitFig ==
    /\ gen = 1
    /\ axes = clearFig(1, 1, 1, 1).axes
    /\ lastClearFig = <<1, 1, 1>>
    /\ call = NoCall
    /\ ncalls = 0

InitNode ==
    /\ plotWidget = "unset"
    /\ connections = <<>>
    /\ setAt = [w \in Widgets |-> -1]
    /\ processed = <<>>
    /\ emitted = <<>>
    /\ received = [w \in Widgets |-> <<>>]
    /\ returned = <<>>

Init == InitFig /\ InitNode

Next ==
    \/ \E e \in SetDataCalls : SetData(e.data, e.r)
    \/ \E a \in ClearArgs : ClearFig(a[1], a[2], a[3])
    \/ \E i \in 1..MaxTarget, e \in PpCalls : Ppcolormesh(i, e.c, e.o)

Spec == Init /\ [][Next]_vars

NextNode ==
    \/ \E w \in Widgets : SetPlotWidget(w)
    \/ \E d \in Tokens : Process(d)

SpecNode == Init /\ [][NextNode]_vars

\* ============================================================ properties
\* The last call was setData with a dataset.
SetDataCall == call.op = "setData" /\ ~call.data.none
\* The dataset of the last call has a first dependent, with an empty shape
\* (Empty) or not (Plottable).
Empty == call.data.ndata > 0 /\ Contains(call.data.shape, 0)
Plottable == call.data.ndata > 0 /\ ~Contains(call.data.shape, 0)

\* C1, as stated: setData raises ValueError for every dataset with more than
\* two axes, whatever its dependents and shapes.
C1_RejectsWhateverShape ==
    SetDataCall /\ call.data.naxes > 2 => call.exc = "ValueError"

\* C1, amended: with more than two axes setData never touches the figure;
\* it raises ValueError when the first dependent exists and has no dimension
\* of size 0, returns normally when that shape contains a 0, and raises
\* IndexError when there is no dependent.
C1_RejectsMoreThanTwoAxes ==
    SetDataCall /\ call.data.naxes > 2 =>
        /\ call.clears = 0 /\ call.draws = 0 /\ call.plots = <<>>
        /\ (Plottable => call.exc = "ValueError")
        /\ (Empty => call.exc = "none")
        /\ (call.data.ndata = 0 => call.exc = "IndexError")

C1_Witness ==
    /\ SetDataCall /\ call.data.naxes > 2 /\ Plottable
    /\ call.data.ndata > 1 /\ call.exc = "ValueError"

\* What the figure shows after a 1d plot of the last call's dataset
Shows1d ==
    /\ call.exc = "none"
    /\ Len(axes) = 1
    /\ Len(axes[1].artists) = call.data.ndata
    /\ \A k \in 1..Len(axes[1].artists) :
          /\ axes[1].artists[k].kind \in {"o", "o-"}
          /\ axes[1].artists[k].dep = k
    /\ Len(call.plots) = call.data.ndata
    /\ \A k \in 1..Len(call.plots) : call.plots[k].kind = "line"

\* What the figure shows after a 2d plot: one subplot per dependent, each
\* drawn by the mesh routine (grid TRUE) or as a scatter plot.
Shows2d(grid) ==
    /\ call.exc = "none"
    /\ Len(axes) = call.data.ndata
    /\ Len(call.plots) = call.data.ndata
    /\ \A i \in 1..Len(call.plots) :
          /\ call.plots[i].kind = IF grid THEN "pp" ELSE "scatter"
          /\ (~grid => axes[i].artists = <<[kind |-> "scatter", dep |-> i]>>)
          /\ \A k \in 1..Len(axes[i].artists) :
                axes[i].artists[k].kind \in {"scatter", "mesh"}

\* C2, as stated: one axis and a dependent give a line plot on one subplot;
\* two axes give a subplot per dependent, drawn by the mesh routine when the
\* data is a MeshgridDataDict, as a scatter plot otherwise.
C2_StrategyByAxesAndType ==
    SetDataCall =>
        /\ (call.data.naxes = 1 /\ call.data.ndata >= 1 => Shows1d)
        /\ (call.data.naxes = 2 => Shows2d(call.data.mesh))

\* C2, amended: the selection happens when the first dependent exists and
\* its shape contains no 0; two-axis data goes to the mesh routine when it
\* is a MeshgridDataDict with every dimension of size 2 or more, and is
\* drawn as a scatter plot otherwise.  Without a dependent (IndexError) or
\* with a 0 in the shape (plain return) nothing is plotted.
C2_StrategyOfPlottableData ==
    SetDataCall /\ call.data.naxes \in {1, 2} =>
        /\ (call.data.naxes = 1 /\ Plottable => Shows1d)
        /\ (call.data.naxes = 2 /\ Plottable =>
               Shows2d(call.data.mesh /\ MinOf(call.data.shape) >= 2))
        /\ (~Plottable =>
               /\ call.plots = <<>> /\ call.clears = 0
               /\ call.exc = IF call.data.ndata = 0 THEN "IndexError"
                             ELSE "none")

C2_Witness ==
    /\ SetDataCall /\ call.data.naxes = 2 /\ call.data.mesh
    /\ call.data.ndata = 2
    /\ \A i \in 1..Len(call.plots) :
          call.plots[i].kind = "pp" /\ call.plots[i].im = "mesh"
    /\ Len(axes) = 2

\* C3: for two-axis data with ndata >= 1 dependents the grid is
\* nrows = floor(sqrt(ndata)) by ncols = ceil(ndata / nrows), nrows >= 1 and
\* nrows * ncols >= ndata, so clearFig does not raise, there are exactly
\* ndata axes and dependent number i is plotted on axis number i.
C3_GridHoldsEveryDependent ==
    SetDataCall /\ call.data.naxes = 2 /\ Plottable =>
        LET nrows == lastClearFig[1]
            ncols == lastClearFig[2]
            ndata == call.data.ndata
        IN  /\ nrows * nrows <= ndata /\ ndata < (nrows + 1) * (nrows + 1)
            /\ (ncols - 1) * nrows < ndata /\ ndata <= ncols * nrows
            /\ nrows >= 1
            /\ nrows * ncols >= ndata
            /\ lastClearFig[3] = ndata
            /\ call.exc = "none"
            /\ Len(axes) = ndata
            /\ Len(call.plots) = ndata
            /\ \A i \in 1..Len(axes) :
                  /\ axes[i].pos = i
                  /\ axes[i].nrows = nrows /\ axes[i].ncols = ncols
                  /\ call.plots[i].dep = i
                  /\ \A k \in 1..Len(axes[i].artists) :
                        axes[i].artists[k].dep = i
                  /\ (call.plots[i].im # "None" =>
                         axes[i].artists # <<>> /\ axes[i].title = i)

C3_Witness ==
    /\ SetDataCall /\ call.data.naxes = 2 /\ Plottable
    /\ call.data.ndata = 4 /\ lastClearFig = <<2, 2, 4>> /\ Len(axes) = 4

\* C4: every process(dataIn=d) emits newPlotData once with d and returns
\* {dataOut: d}; once setPlotWidget(w) was called, every later process call
\* calls w.setData with the data of that call, in the order of the calls.
C4_PassThrough ==
    /\ emitted = processed
    /\ returned = [k \in 1..Len(processed) |-> [dataOut |-> processed[k]]]
    /\ \A w \in Widgets : setAt[w] >= 0 =>
          /\ \A k \in (setAt[w] + 1)..Len(processed) :
                \E j \in 1..Len(received[w]) :
                    received[w][j] = <<k, processed[k]>>
          /\ \A j \in 1..Len(received[w]) :
                /\ received[w][j][1] \in (setAt[w] + 1)..Len(processed)
                /\ received[w][j][2] = processed[received[w][j][1]]
          /\ \A i, j \in 1..Len(received[w]) :
                i < j => received[w][i][1] <= received[w][j][1]

C4_Witness ==
    \E w \in Widgets :
        /\ setAt[w] >= 0
        /\ Len(processed) >= setAt[w] + 2
        /\ processed[Len(processed)] # processed[Len(processed) - 1]
        /\ Len(received[w]) >= 2

\* C5: for a dataset without axes or without dependents setData clears the
\* figure to no subplots and returns normally.
C5_ClearsWithoutAxesOrDependents ==
    SetDataCall /\ (call.data.naxes = 0 \/ call.data.ndata = 0) =>
        call.exc = "none" /\ call.clears = 1 /\ axes = <<>>

\* The arrays of the mesh routine after filling, interpolation and cropping
AfterSteps ==
    IF (call.data.num.xcls # "none" \/ call.data.num.ycls # "none")
       /\ call.data.num.gaps
    THEN call.data.num.crop ELSE call.data.shape

StepRank(step) == CASE step = "fill" -> 1 [] step = "interp" -> 2
                    [] step = "crop" -> 3 [] step = "edges" -> 4

\* C6: the mesh routine draws a mesh only if, after filling, interpolating
\* and cropping in that order, the arrays are non-empty, have two or more
\* dimensions, each of size 2 or more, and the edge conversion succeeds; it
\* returns None, drawing nothing, when all x or all y are invalid, when the
\* arrays are empty or have fewer than two dimensions, or when the edge
\* conversion raises; _plot2d adds colorbar, title and labels exactly when
\* an image was returned.
C6_MeshOnlyFromValidGrid ==
    /\ call.op \in {"setData", "ppcolormesh"} =>
          \A i \in 1..Len(call.plots) : call.plots[i].kind = "pp" =>
              LET p == call.plots[i]
                  nm == call.data.num
                  f == AfterSteps
              IN  /\ p.trace[1] = "fill"
                  /\ \A k \in 2..Len(p.trace) :
                        StepRank(p.trace[k - 1]) < StepRank(p.trace[k])
                  /\ (p.im = "mesh" =>
                         /\ Prod(f) > 0 /\ Len(f) >= 2
                         /\ \A k \in 1..Len(f) : f[k] >= 2
                         /\ nm.edgesOK /\ Contains(p.trace, "edges")
                         /\ nm.xcls # "all" /\ nm.ycls # "all")
                  /\ (nm.xcls = "all" \/ nm.ycls = "all" => p.im = "None")
                  /\ (Prod(f) = 0 \/ Len(f) < 2 => p.im = "None")
                  /\ (Contains(p.trace, "edges") /\ ~nm.edgesOK
                         => p.im = "None")
    /\ SetDataCall /\ call.data.naxes = 2 /\ call.exc = "none" =>
          \A i \in 1..Len(call.plots) :
              LET image == call.plots[i].im # "None"
              IN  /\ axes[i].colorbar <=> image
                  /\ axes[i].title = i <=> image
                  /\ axes[i].xlabel <=> image
                  /\ axes[i].ylabels = 1 <=> image
                  /\ axes[i].artists # <<>> <=> image

C6_Witness ==
    /\ SetDataCall /\ call.data.naxes = 2
    /\ call.plots # <<>>
    /\ call.plots[1].kind = "pp" /\ call.plots[1].im = "mesh"
    /\ call.plots[1].trace = <<"fill", "interp", "crop", "edges">>
    /\ axes[1].colorbar

\* C7: a two-axis MeshgridDataDict with a dimension smaller than 2 and none
\* of size 0 is converted by meshgrid_to_datadict, every dependent is drawn
\* as a scatter plot and the mesh routine is not called.
C7_ThinGridIsScattered ==
    /\ SetDataCall /\ call.data.naxes = 2 /\ call.data.mesh /\ Plottable
    /\ MinOf(call.data.shape) < 2
    => /\ call.conv
       /\ call.exc = "none"
       /\ Len(call.plots) = call.data.ndata
       /\ Len(axes) = call.data.ndata
       /\ \A i \in 1..Len(call.plots) :
             /\ call.plots[i].kind = "scatter"
             /\ call.plots[i].im = "scatter"
             /\ call.plots[i].trace = <<>>
             /\ axes[i].artists = <<[kind |-> "scatter", dep |-> i]>>

C7_Witness ==
    /\ SetDataCall /\ call.data.naxes = 2 /\ call.data.mesh
    /\ call.data.shape = <<1, 2>> /\ call.data.ndata = 3
    /\ call.conv /\ Len(axes) = 3

\* C8: clearFig raises ValueError whenever naxes > nrows * ncols, with the
\* figure cleared and no axes; when it returns the axes are exactly naxes
\* new subplots at positions 1..naxes, none from an earlier call; after any
\* calls len(axes) <= nrows * ncols of the last one.
C8_ClearFig ==
    /\ call.op = "clearFig" =>
          LET nrows == call.args[1]
              ncols == call.args[2]
              naxes == call.args[3]
          IN  /\ gen > 1 /\ call.clears = 1
              /\ (naxes > nrows * ncols =>
                     call.exc = "ValueError" /\ axes = <<>>)
              /\ (call.exc = "none" =>
                     /\ Len(axes) = naxes
                     /\ \A i \in 1..Len(axes) :
                           /\ axes[i].pos = i
                           /\ axes[i].nrows = nrows /\ axes[i].ncols = ncols
                           /\ axes[i].artists = <<>>)
    /\ \A i \in 1..Len(axes) : axes[i].born = gen
    /\ Len(axes) <= lastClearFig[1] * lastClearFig[2]

C8_Witness ==
    /\ call.op = "clearFig" /\ call.args = <<2, 2, 3>>
    /\ call.exc = "none" /\ Len(axes) = 3

\* C9: setData with None, or with a 0 in the shape of the first dependent,
\* returns without clearing the figure, changing the axes or redrawing, for
\* any number of axes.
C9_NoOpOnAbsentOrEmptyData ==
    [][(/\ ncalls' # ncalls
        /\ call'.op = "setData"
        /\ \/ call'.data.none
           \/ call'.data.ndata > 0 /\ Contains(call'.data.shape, 0))
       => /\ axes' = axes /\ gen' = gen /\ lastClearFig' = lastClearFig
          /\ call'.exc = "none" /\ call'.clears = 0 /\ call'.draws = 0
          /\ call'.plots = <<>>]_vars

C9_Witness ==
    /\ SetDataCall /\ Empty /\ call.data.naxes = 2 /\ call.data.mesh
    /\ call.exc = "none" /\ axes # <<>> /\ call.clears = 0

\* C10: every subplot clearFig creates after the first shares its x and y
\* axes with the first one.
C10_LaterSubplotsShareAxes ==
    \A i \in 2..Len(axes) :
        /\ axes[i].sharex = SubplotKw(i).sharex
        /\ axes[i].sharey = SubplotKw(i).sharey

TypeOK == gen \in 1..(MaxCalls + 1)
====
